---- MODULE Spec2Model ----
(***************************************************************************)
(* Model of main.py: the touch agent's connection lifecycle (main,         *)
(* start_workers, stop_workers), its four worker threads, the GPIO touch   *)
(* callback, the transport's interruption callbacks and the inbound        *)
(* message handler on_message.                                             *)
(*                                                                         *)
(* In the lifecycle specifications wall-clock time is abstracted: a sleep  *)
(* is a step from a sleeping location back to the loop test, and a wait    *)
(* with a timeout either gets its answer or times out.  The schedule of    *)
(* publisher_loop is followed against a clock in a specification of its    *)
(* own.                                                                    *)
(***************************************************************************)
EXTENDS Integers, Sequences, FiniteSets, TLC

\* ---- bounds of the model ----
MaxSessions == 2       \* connection attempts made by main's loop
MaxSent == 2           \* publish calls that return normally
MaxInterrupts == 2     \* KeyboardInterrupts delivered to the main thread
MaxInbox == 2          \* payloads the transport delivers to on_message
MaxPresses == 2        \* physical presses of the touch sensor
MaxBounces == 2        \* level changes of the contact bounce of one press
MaxClock == 12         \* seconds of wall-clock time followed

\* time.sleep(10) of publisher_loop
SleepSeconds == 10

Sessions == 1..MaxSessions

\* The thread list of start_workers, in the order it is built and joined.
Roles == <<"listener", "publisher", "metrics", "extra">>
RoleSet == {Roles[i] : i \in 1..Len(Roles)}

VARIABLES
    pcMain,           \* location of the main thread in main()
    inHandler,        \* main is inside its `except KeyboardInterrupt` handler
    client,           \* main's locals client_id/client: 0 = unbound, else the uuid of the n-th build
    threads,          \* main's local threads: 0 = unbound, else the session whose list it holds
    joinIdx,          \* position of stop_workers' `for th in threads` loop
    conn,             \* transport state of each client built so far
    cbSet,            \* on_connection_interrupted / on_connection_resumed registered on the client
    STOP_EVENT,
    RECONNECT_EVENT,
    edgeDetect,       \* 0, or the session whose touch_callback partial is registered on TOUCH_PIN
    gpioClean,        \* GPIO.cleanup() has run
    worker,           \* location of each worker thread of each session
    tmp,              \* publisher_loop's loaded value of METRICS["total_messages_sent"]
    touchPc,          \* location of the GPIO callback thread in touch_callback
    touchSess,        \* the session bound into the running touch_callback
    touchTmp,         \* touch_callback's loaded value of METRICS["total_messages_sent"]
    METRICS,
    INCOMING,
    inbox,            \* payloads in flight from the broker to on_message
    lastHandled,      \* the payload of the most recent on_message call
    escaped,          \* exception on_message let through to the transport thread ("none" if none)
    pubCount,         \* publish calls that returned normally
    lastPub,          \* the message handed to the most recent such publish
    currentId,        \* client_id of the most recent successful connect (0 = none yet)
    kiCount,          \* KeyboardInterrupts delivered so far
    interruptPending, \* on_interrupted ran for main's client and main has not yet left its poll loop
    crashCause,       \* why an exception escaped main ("none" while none has)
    disconnectTried,  \* clients on which disconnect() has been called
    pin,              \* level of TOUCH_PIN (0 = LOW, 1 = HIGH)
    pressPhase,       \* the finger: released, bouncing (contact settling), held
    bounces,          \* level changes made so far by the current press's contact bounce
    bounceTime,       \* add_event_detect's bouncetime is running since the last edge it reported
    presses,          \* physical presses begun so far
    clock,            \* wall-clock time in seconds
    wakeAt,           \* when the time.sleep(10) of each publisher_loop ends
    fireAt,           \* timestamps of the test messages published so far
    end_at,           \* the decay window: the output is active until this time
    armedLog          \* the times at which the decay window was armed

vars == <<pcMain, inHandler, client, threads, joinIdx, conn, cbSet, STOP_EVENT,
          RECONNECT_EVENT, edgeDetect, gpioClean, worker, tmp, touchPc, touchSess,
          touchTmp, METRICS, INCOMING, inbox, lastHandled, escaped, pubCount, lastPub,
          currentId, kiCount, interruptPending, crashCause, disconnectTried,
          pin,
          pressPhase,
          bounces,
          bounceTime,
          presses,
          clock,
          wakeAt,
          fireAt,
          end_at,
          armedLog>>

NoMessage == [client_id |-> 0, action |-> "none"]

NoPayload == [enc |-> "none"]

build_metrics ==
    [total_messages_sent |-> 0,
     total_messages_received |-> 0,
     client_reconnections |-> -1]

\* build_message(client_id, action): the timestamp field is wall-clock time
\* and is left out.
build_message(client_id, action) ==
    [client_id |-> client_id, action |-> action]

\* The process is running: no exception has escaped main and main has not
\* returned (the workers are daemon threads and die with the process).
Alive == pcMain \notin {"crashed", "exited"}

\* Locations of stop_workers.
StopPcs == {"stop_set", "join", "detach", "disconnect"}

\* Locations inside main's `try:` body.
TryPcs == {"build", "connect", "register", "sw_clear", "sw_setup_touch",
           "sw_start", "sw_return", "poll"} \cup StopPcs

Terminated(s, r) == worker[s][r] \in {"unstarted", "done", "failed"}

\* A location a thread can stay in for longer than join's 2 s timeout:
\* sub_future.result() without a timeout, time.sleep(10), time.sleep(30).
LongBlocked(s, r) ==
    \/ r = "listener" /\ worker[s][r] = "subscribe"
    \/ r = "publisher" /\ worker[s][r] = "sleep"
    \/ r = "metrics" /\ worker[s][r] = "sleep"

FlagSet == STOP_EVENT \/ RECONNECT_EVENT

Init ==
    /\ pcMain = "build"
    /\ inHandler = FALSE
    /\ client = 0
    /\ threads = 0
    /\ joinIdx = 0
    /\ conn = [s \in Sessions |-> "none"]
    /\ cbSet = [s \in Sessions |-> FALSE]
    /\ STOP_EVENT = FALSE
    /\ RECONNECT_EVENT = FALSE
    /\ edgeDetect = 0
    /\ gpioClean = FALSE
    /\ worker = [s \in Sessions |-> [r \in RoleSet |-> "unstarted"]]
    /\ tmp = [s \in Sessions |-> 0]
    /\ touchPc = "idle"
    /\ touchSess = 0
    /\ touchTmp = 0
    /\ METRICS = build_metrics
    /\ INCOMING = <<>>
    /\ inbox = <<>>
    /\ lastHandled = NoPayload
    /\ escaped = "none"
    /\ pubCount = 0
    /\ lastPub = NoMessage
    /\ currentId = 0
    /\ kiCount = 0
    /\ interruptPending = FALSE
    /\ crashCause = "none"
    /\ disconnectTried = {}
    /\ pin = 0
    /\ pressPhase = "released"
    /\ bounces = 0
    /\ bounceTime = FALSE
    /\ presses = 0
    /\ clock = 0
    /\ wakeAt = [s \in Sessions |-> 0]
    /\ fireAt = <<>>
    /\ end_at = 0
    /\ armedLog = <<>>
\* ---------------------------------------------------------------------
\* main: one iteration of `while True`
\* ---------------------------------------------------------------------

\* client_id, client = build_mqtt_client(): a fresh uuid4 and a client object.
build_mqtt_client ==
    /\ Alive /\ pcMain = "build"
    /\ client < MaxSessions
    /\ client' = client + 1
    /\ conn' = [conn EXCEPT ![client + 1] = "built"]
    /\ pcMain' = "connect"
    /\ UNCHANGED <<inHandler, threads, joinIdx, cbSet, STOP_EVENT, RECONNECT_EVENT,
                   edgeDetect, gpioClean, worker, tmp, touchPc, touchSess,
                   touchTmp, METRICS, INCOMING, inbox, lastHandled, escaped,
                   pubCount, lastPub, currentId, kiCount, interruptPending,
                   crashCause, disconnectTried, pin, pressPhase, bounces,
                   bounceTime, presses, clock, wakeAt, fireAt, end_at, armedLog>>

\* client.connect().result(timeout=10) returns.
ConnectOk ==
    /\ Alive /\ pcMain = "connect"
    /\ conn' = [conn EXCEPT ![client] = "up"]
    /\ currentId' = client
    /\ pcMain' = "register"
    /\ UNCHANGED <<inHandler, client, threads, joinIdx, cbSet, STOP_EVENT,
                   RECONNECT_EVENT, edgeDetect, gpioClean, worker, tmp, touchPc,
                   touchSess, touchTmp, METRICS, INCOMING, inbox, lastHandled,
                   escaped, pubCount, lastPub, kiCount, interruptPending,
                   crashCause, disconnectTried, pin, pressPhase, bounces,
                   bounceTime, presses, clock, wakeAt, fireAt, end_at, armedLog>>

\* main's `except Exception` clause: it raises RuntimeError out of main.
ExceptException(cause) ==
    /\ pcMain' = "crashed"
    /\ crashCause' = cause

\* client.connect().result(timeout=10) raises (timeout or transport error).
ConnectFail ==
    /\ Alive /\ pcMain = "connect"
    /\ ExceptException("connect")
    /\ UNCHANGED <<inHandler, client, threads, joinIdx, conn, cbSet, STOP_EVENT,
                   RECONNECT_EVENT, edgeDetect, gpioClean, worker, tmp, touchPc,
                   touchSess, touchTmp, METRICS, INCOMING, inbox, lastHandled,
                   escaped, pubCount, lastPub, currentId, kiCount,
                   interruptPending, disconnectTried, pin, pressPhase, bounces,
                   bounceTime, presses, clock, wakeAt, fireAt, end_at, armedLog>>

\* client.on_connection_interrupted = on_interrupted; ..._resumed = on_resumed;
\* METRICS["client_reconnections"] += 1
RegisterCallbacks ==
    /\ Alive /\ pcMain = "register"
    /\ cbSet' = [cbSet EXCEPT ![client] = TRUE]
    /\ METRICS' = [METRICS EXCEPT !.client_reconnections = @ + 1]
    /\ pcMain' = "sw_clear"
    /\ UNCHANGED <<inHandler, client, threads, joinIdx, conn, STOP_EVENT,
                   RECONNECT_EVENT, edgeDetect, gpioClean, worker, tmp, touchPc,
                   touchSess, touchTmp, INCOMING, inbox, lastHandled, escaped,
                   pubCount, lastPub, currentId, kiCount, interruptPending,
                   crashCause, disconnectTried, pin, pressPhase, bounces,
                   bounceTime, presses, clock, wakeAt, fireAt, end_at, armedLog>>

\* start_workers: STOP_EVENT.clear(); RECONNECT_EVENT.clear()
ClearEvents ==
    /\ Alive /\ pcMain = "sw_clear"
    /\ STOP_EVENT' = FALSE
    /\ RECONNECT_EVENT' = FALSE
    /\ pcMain' = "sw_setup_touch"
    /\ UNCHANGED <<inHandler, client, threads, joinIdx, conn, cbSet, edgeDetect,
                   gpioClean, worker, tmp, touchPc, touchSess, touchTmp, METRICS,
                   INCOMING, inbox, lastHandled, escaped, pubCount, lastPub,
                   currentId, kiCount, interruptPending, crashCause,
                   disconnectTried, pin, pressPhase, bounces, bounceTime, presses,
                   clock, wakeAt, fireAt, end_at, armedLog>>

\* start_workers: setup_touch_listener(client, topic, client_id) returns:
\* the pin's old detection is removed and touch_callback, bound to this
\* session's client and client_id, is registered for rising edges.
SetupTouchOk ==
    /\ Alive /\ pcMain = "sw_setup_touch"
    /\ edgeDetect' = client
    /\ pcMain' = "sw_start"
    /\ UNCHANGED <<inHandler, client, threads, joinIdx, conn, cbSet, STOP_EVENT,
                   RECONNECT_EVENT, gpioClean, worker, tmp, touchPc, touchSess,
                   touchTmp, METRICS, INCOMING, inbox, lastHandled, escaped,
                   pubCount, lastPub, currentId, kiCount, interruptPending,
                   crashCause, disconnectTried, pin, pressPhase, bounces,
                   bounceTime, presses, clock, wakeAt, fireAt, end_at, armedLog>>

\* setup_touch_listener raises RuntimeError (add_event_detect failed); the
\* error leaves start_workers and reaches main's `except Exception`.
SetupTouchFail ==
    /\ Alive /\ pcMain = "sw_setup_touch"
    /\ edgeDetect' = 0
    /\ ExceptException("edge_detect")
    /\ UNCHANGED <<inHandler, client, threads, joinIdx, conn, cbSet, STOP_EVENT,
                   RECONNECT_EVENT, gpioClean, worker, tmp, touchPc, touchSess,
                   touchTmp, METRICS, INCOMING, inbox, lastHandled, escaped,
                   pubCount, lastPub, currentId, kiCount, interruptPending,
                   disconnectTried, pin, pressPhase, bounces, bounceTime, presses,
                   clock, wakeAt, fireAt, end_at, armedLog>>

\* start_workers: the four threads are created and started.
StartThreads ==
    /\ Alive /\ pcMain = "sw_start"
    /\ worker' = [worker EXCEPT ![client] =
                     [r \in RoleSet |->
                        CASE r = "listener" -> "subscribe"
                          [] r = "publisher" -> "check"
                          [] r = "metrics" -> "check"
                          [] OTHER -> "loop"]]
    /\ pcMain' = "sw_return"
    /\ UNCHANGED <<inHandler, client, threads, joinIdx, conn, cbSet, STOP_EVENT,
                   RECONNECT_EVENT, edgeDetect, gpioClean, tmp, touchPc, touchSess,
                   touchTmp, METRICS, INCOMING, inbox, lastHandled, escaped,
                   pubCount, lastPub, currentId, kiCount, interruptPending,
                   crashCause, disconnectTried, pin, pressPhase, bounces,
                   bounceTime, presses, clock, wakeAt, fireAt, end_at, armedLog>>

\* threads = start_workers(...): the list is bound to main's local.
BindThreads ==
    /\ Alive /\ pcMain = "sw_return"
    /\ threads' = client
    /\ pcMain' = "poll"
    /\ UNCHANGED <<inHandler, client, joinIdx, conn, cbSet, STOP_EVENT,
                   RECONNECT_EVENT, edgeDetect, gpioClean, worker, tmp, touchPc,
                   touchSess, touchTmp, METRICS, INCOMING, inbox, lastHandled,
                   escaped, pubCount, lastPub, currentId, kiCount,
                   interruptPending, crashCause, disconnectTried, pin, pressPhase,
                   bounces, bounceTime, presses, clock, wakeAt, fireAt, end_at,
                   armedLog>>

\* `while not RECONNECT_EVENT.is_set(): time.sleep(0.5)` ends.
PollReconnect ==
    /\ Alive /\ pcMain = "poll"
    /\ RECONNECT_EVENT
    /\ interruptPending' = FALSE
    /\ pcMain' = "stop_set"
    /\ UNCHANGED <<inHandler, client, threads, joinIdx, conn, cbSet, STOP_EVENT,
                   RECONNECT_EVENT, edgeDetect, gpioClean, worker, tmp, touchPc,
                   touchSess, touchTmp, METRICS, INCOMING, inbox, lastHandled,
                   escaped, pubCount, lastPub, currentId, kiCount, crashCause,
                   disconnectTried, pin, pressPhase, bounces, bounceTime, presses,
                   clock, wakeAt, fireAt, end_at, armedLog>>

\* ---------------------------------------------------------------------
\* stop_workers(threads, client), called from the reconnect path and from
\* the KeyboardInterrupt handler
\* ---------------------------------------------------------------------

\* A stop_workers that does not set STOP_EVENT
SetStop_Skipped ==
    /\ UNCHANGED STOP_EVENT

\* STOP_EVENT.set()
SetStop ==
    /\ STOP_EVENT' = TRUE

StopSet ==
    /\ Alive /\ pcMain = "stop_set"
    /\ SetStop
    /\ IF threads = 0
         THEN pcMain' = "detach" /\ joinIdx' = 0
         ELSE pcMain' = "join" /\ joinIdx' = 1
    /\ UNCHANGED <<inHandler, client, threads, conn, cbSet, RECONNECT_EVENT,
                   edgeDetect, gpioClean, worker, tmp, touchPc, touchSess,
                   touchTmp, METRICS, INCOMING, inbox, lastHandled, escaped,
                   pubCount, lastPub, currentId, kiCount, interruptPending,
                   crashCause, disconnectTried, pin, pressPhase, bounces,
                   bounceTime, presses, clock, wakeAt, fireAt, end_at, armedLog>>

\* th.join(timeout=2) returns: the thread has ended, or the timeout ran
\* out on a thread that is blocked for longer than 2 s.
Join ==
    /\ Alive /\ pcMain = "join"
    /\ \/ Terminated(threads, Roles[joinIdx])
       \/ LongBlocked(threads, Roles[joinIdx])
    /\ IF joinIdx = Len(Roles)
         THEN pcMain' = "detach" /\ joinIdx' = 0
         ELSE pcMain' = "join" /\ joinIdx' = joinIdx + 1
    /\ UNCHANGED <<inHandler, client, threads, conn, cbSet, STOP_EVENT,
                   RECONNECT_EVENT, edgeDetect, gpioClean, worker, tmp, touchPc,
                   touchSess, touchTmp, METRICS, INCOMING, inbox, lastHandled,
                   escaped, pubCount, lastPub, currentId, kiCount,
                   interruptPending, crashCause, disconnectTried, pin, pressPhase,
                   bounces, bounceTime, presses, clock, wakeAt, fireAt, end_at,
                   armedLog>>

\* stop_workers without its remove_event_detect call
RemoveEventDetect_Skipped ==
    /\ UNCHANGED edgeDetect

\* GPIO.remove_event_detect(TOUCH_PIN)
RemoveEventDetect ==
    /\ edgeDetect' = 0

Detach ==
    /\ Alive /\ pcMain = "detach"
    /\ RemoveEventDetect
    /\ pcMain' = "disconnect"
    /\ UNCHANGED <<inHandler, client, threads, joinIdx, conn, cbSet, STOP_EVENT,
                   RECONNECT_EVENT, gpioClean, worker, tmp, touchPc, touchSess,
                   touchTmp, METRICS, INCOMING, inbox, lastHandled, escaped,
                   pubCount, lastPub, currentId, kiCount, interruptPending,
                   crashCause, disconnectTried, pin, pressPhase, bounces,
                   bounceTime, presses, clock, wakeAt, fireAt, end_at, armedLog>>

\* Where stop_workers returns to: the top of the loop, or the handler's
\* `finally`.
AfterStop == IF inHandler THEN "gpio_cleanup" ELSE "build"

\* `if client is not None` is false: nothing to disconnect.
DisconnectNone ==
    /\ Alive /\ pcMain = "disconnect"
    /\ client = 0
    /\ pcMain' = AfterStop
    /\ UNCHANGED <<inHandler, client, threads, joinIdx, conn, cbSet, STOP_EVENT,
                   RECONNECT_EVENT, edgeDetect, gpioClean, worker, tmp, touchPc,
                   touchSess, touchTmp, METRICS, INCOMING, inbox, lastHandled,
                   escaped, pubCount, lastPub, currentId, kiCount,
                   interruptPending, crashCause, disconnectTried, pin, pressPhase,
                   bounces, bounceTime, presses, clock, wakeAt, fireAt, end_at,
                   armedLog>>

\* client.disconnect().result(timeout=5) returns.
DisconnectOk ==
    /\ Alive /\ pcMain = "disconnect"
    /\ client # 0
    /\ disconnectTried' = disconnectTried \cup {client}
    /\ conn' = [conn EXCEPT ![client] = "closed"]
    /\ pcMain' = AfterStop
    /\ UNCHANGED <<inHandler, client, threads, joinIdx, cbSet, STOP_EVENT,
                   RECONNECT_EVENT, edgeDetect, gpioClean, worker, tmp, touchPc,
                   touchSess, touchTmp, METRICS, INCOMING, inbox, lastHandled,
                   escaped, pubCount, lastPub, currentId, kiCount,
                   interruptPending, crashCause, pin, pressPhase, bounces,
                   bounceTime, presses, clock, wakeAt, fireAt, end_at, armedLog>>

\* A stop_workers without the try around the disconnect: the error leaves
\* it and reaches main's `except Exception`
DisconnectFail_Raises ==
    /\ Alive /\ pcMain = "disconnect"
    /\ client # 0
    /\ disconnectTried' = disconnectTried \cup {client}
    /\ ExceptException("disconnect")
    /\ UNCHANGED <<inHandler, client, threads, joinIdx, conn, cbSet, STOP_EVENT,
                   RECONNECT_EVENT, edgeDetect, gpioClean, worker, tmp, touchPc,
                   touchSess, touchTmp, METRICS, INCOMING, inbox, lastHandled,
                   escaped, pubCount, lastPub, currentId, kiCount,
                   interruptPending, pin, pressPhase, bounces, bounceTime, presses,
                   clock, wakeAt, fireAt, end_at, armedLog>>

\* client.disconnect().result(timeout=5) raises (a transport error, or the
\* 5 s timeout); the error is printed and ignored, the connection is left
\* as it was.
DisconnectFail ==
    /\ Alive /\ pcMain = "disconnect"
    /\ client # 0
    /\ disconnectTried' = disconnectTried \cup {client}
    /\ pcMain' = AfterStop
    /\ UNCHANGED <<inHandler, client, threads, joinIdx, conn, cbSet, STOP_EVENT,
                   RECONNECT_EVENT, edgeDetect, gpioClean, worker, tmp, touchPc,
                   touchSess, touchTmp, METRICS, INCOMING, inbox, lastHandled,
                   escaped, pubCount, lastPub, currentId, kiCount,
                   interruptPending, crashCause, pin, pressPhase, bounces,
                   bounceTime, presses, clock, wakeAt, fireAt, end_at, armedLog>>

\* ---------------------------------------------------------------------
\* KeyboardInterrupt in the main thread
\* ---------------------------------------------------------------------

\* Raised in the try body: `except KeyboardInterrupt` starts
\* stop_workers(threads if bound else [], client if bound else None).
InterruptInTry ==
    /\ Alive /\ ~inHandler /\ pcMain \in TryPcs
    /\ kiCount < MaxInterrupts
    /\ kiCount' = kiCount + 1
    /\ inHandler' = TRUE
    /\ pcMain' = "stop_set"
    /\ joinIdx' = 0
    /\ UNCHANGED <<client, threads, conn, cbSet, STOP_EVENT, RECONNECT_EVENT,
                   edgeDetect, gpioClean, worker, tmp, touchPc, touchSess,
                   touchTmp, METRICS, INCOMING, inbox, lastHandled, escaped,
                   pubCount, lastPub, currentId, interruptPending, crashCause,
                   disconnectTried, pin, pressPhase, bounces, bounceTime, presses,
                   clock, wakeAt, fireAt, end_at, armedLog>>

\* Raised inside the handler's stop_workers: `finally` runs and its
\* `break` discards the exception.
InterruptInHandler ==
    /\ Alive /\ inHandler /\ pcMain \in StopPcs
    /\ kiCount < MaxInterrupts
    /\ kiCount' = kiCount + 1
    /\ pcMain' = "gpio_cleanup"
    /\ joinIdx' = 0
    /\ UNCHANGED <<inHandler, client, threads, conn, cbSet, STOP_EVENT,
                   RECONNECT_EVENT, edgeDetect, gpioClean, worker, tmp, touchPc,
                   touchSess, touchTmp, METRICS, INCOMING, inbox, lastHandled,
                   escaped, pubCount, lastPub, currentId, interruptPending,
                   crashCause, disconnectTried, pin, pressPhase, bounces,
                   bounceTime, presses, clock, wakeAt, fireAt, end_at, armedLog>>

\* Raised inside `finally` before GPIO.cleanup() has run: nothing catches it.
InterruptInFinally ==
    /\ Alive /\ inHandler /\ pcMain = "gpio_cleanup"
    /\ kiCount < MaxInterrupts
    /\ kiCount' = kiCount + 1
    /\ pcMain' = "crashed"
    /\ crashCause' = "KeyboardInterrupt"
    /\ UNCHANGED <<inHandler, client, threads, joinIdx, conn, cbSet, STOP_EVENT,
                   RECONNECT_EVENT, edgeDetect, gpioClean, worker, tmp, touchPc,
                   touchSess, touchTmp, METRICS, INCOMING, inbox, lastHandled,
                   escaped, pubCount, lastPub, currentId, interruptPending,
                   disconnectTried, pin, pressPhase, bounces, bounceTime, presses,
                   clock, wakeAt, fireAt, end_at, armedLog>>

\* finally: GPIO.cleanup(); break.  Cleaning up every channel also removes
\* any edge detection; main then returns.
GpioCleanup ==
    /\ Alive /\ pcMain = "gpio_cleanup"
    /\ gpioClean' = TRUE
    /\ edgeDetect' = 0
    /\ pcMain' = "exited"
    /\ UNCHANGED <<inHandler, client, threads, joinIdx, conn, cbSet, STOP_EVENT,
                   RECONNECT_EVENT, worker, tmp, touchPc, touchSess, touchTmp,
                   METRICS, INCOMING, inbox, lastHandled, escaped, pubCount,
                   lastPub, currentId, kiCount, interruptPending, crashCause,
                   disconnectTried, pin, pressPhase, bounces, bounceTime, presses,
                   clock, wakeAt, fireAt, end_at, armedLog>>

\* ---------------------------------------------------------------------
\* worker threads of session s
\* ---------------------------------------------------------------------

\* An except clause that prints and returns without RECONNECT_EVENT.set()
WorkerExcept_NoSignal(s, r) ==
    /\ UNCHANGED RECONNECT_EVENT
    /\ worker' = [worker EXCEPT ![s][r] = "failed"]

\* A worker's `except Exception as e:` clause: print, RECONNECT_EVENT.set(),
\* and the thread function returns.
WorkerExcept(s, r) ==
    /\ RECONNECT_EVENT' = TRUE
    /\ worker' = [worker EXCEPT ![s][r] = "failed"]

\* listener_loop: client.subscribe(...) and sub_future.result() return.
ListenerSubscribed(s) ==
    /\ Alive /\ worker[s]["listener"] = "subscribe"
    /\ worker' = [worker EXCEPT ![s]["listener"] = "loop"]
    /\ UNCHANGED <<pcMain, inHandler, client, threads, joinIdx, conn, cbSet,
                   STOP_EVENT, RECONNECT_EVENT, edgeDetect, gpioClean, tmp,
                   touchPc, touchSess, touchTmp, METRICS, INCOMING, inbox,
                   lastHandled, escaped, pubCount, lastPub, currentId, kiCount,
                   interruptPending, crashCause, disconnectTried, pin, pressPhase,
                   bounces, bounceTime, presses, clock, wakeAt, fireAt, end_at,
                   armedLog>>

\* listener_loop: client.subscribe(...) or sub_future.result() raises.
ListenerSubscribeFail(s) ==
    /\ Alive /\ worker[s]["listener"] = "subscribe"
    /\ WorkerExcept(s, "listener")
    /\ UNCHANGED <<pcMain, inHandler, client, threads, joinIdx, conn, cbSet,
                   STOP_EVENT, edgeDetect, gpioClean, tmp, touchPc, touchSess,
                   touchTmp, METRICS, INCOMING, inbox, lastHandled, escaped,
                   pubCount, lastPub, currentId, kiCount, interruptPending,
                   crashCause, disconnectTried, pin, pressPhase, bounces,
                   bounceTime, presses, clock, wakeAt, fireAt, end_at, armedLog>>

\* listener_loop: the while test finds a flag set (otherwise it sleeps
\* 0.25 s and tests again).
ListenerExit(s) ==
    /\ Alive /\ worker[s]["listener"] = "loop"
    /\ FlagSet
    /\ worker' = [worker EXCEPT ![s]["listener"] = "done"]
    /\ UNCHANGED <<pcMain, inHandler, client, threads, joinIdx, conn, cbSet,
                   STOP_EVENT, RECONNECT_EVENT, edgeDetect, gpioClean, tmp,
                   touchPc, touchSess, touchTmp, METRICS, INCOMING, inbox,
                   lastHandled, escaped, pubCount, lastPub, currentId, kiCount,
                   interruptPending, crashCause, disconnectTried, pin, pressPhase,
                   bounces, bounceTime, presses, clock, wakeAt, fireAt, end_at,
                   armedLog>>

\* client.publish(topic, payload, qos) returns: the transport has taken
\* the message.
Publish(msg) ==
    /\ pubCount < MaxSent
    /\ pubCount' = pubCount + 1
    /\ lastPub' = msg

\* publisher_loop: the while test, at thread start or when time.sleep(10)
\* has ended, finds a flag set.
PublisherExit(s) ==
    /\ Alive /\ worker[s]["publisher"] \in {"check", "sleep"}
    /\ FlagSet
    /\ worker' = [worker EXCEPT ![s]["publisher"] = "done"]
    /\ UNCHANGED <<pcMain, inHandler, client, threads, joinIdx, conn, cbSet,
                   STOP_EVENT, RECONNECT_EVENT, edgeDetect, gpioClean, tmp,
                   touchPc, touchSess, touchTmp, METRICS, INCOMING, inbox,
                   lastHandled, escaped, pubCount, lastPub, currentId, kiCount,
                   interruptPending, crashCause, disconnectTried, pin, pressPhase,
                   bounces, bounceTime, presses, clock, wakeAt, fireAt, end_at,
                   armedLog>>

\* publisher_loop: the while test passes; build_message(current_client_id),
\* publish, and the load half of METRICS["total_messages_sent"] += 1.
PublishIteration(s) ==
    /\ Alive /\ worker[s]["publisher"] \in {"check", "sleep"}
    /\ ~FlagSet
    /\ Publish(build_message(s, "test"))
    /\ tmp' = [tmp EXCEPT ![s] = METRICS.total_messages_sent]
    /\ worker' = [worker EXCEPT ![s]["publisher"] = "store"]

PublisherPublish(s) ==
    /\ PublishIteration(s)
    /\ UNCHANGED <<pcMain, inHandler, client, threads, joinIdx, conn, cbSet,
                   STOP_EVENT, RECONNECT_EVENT, edgeDetect, gpioClean, touchPc,
                   touchSess, touchTmp, METRICS, INCOMING, inbox, lastHandled,
                   escaped, currentId, kiCount, interruptPending, crashCause,
                   disconnectTried, pin, pressPhase, bounces, bounceTime, presses,
                   clock, wakeAt, fireAt, end_at, armedLog>>

\* publisher_loop: the while test passes and client.publish raises.
PublisherPublishFail(s) ==
    /\ Alive /\ worker[s]["publisher"] \in {"check", "sleep"}
    /\ ~FlagSet
    /\ WorkerExcept(s, "publisher")
    /\ UNCHANGED <<pcMain, inHandler, client, threads, joinIdx, conn, cbSet,
                   STOP_EVENT, edgeDetect, gpioClean, tmp, touchPc, touchSess,
                   touchTmp, METRICS, INCOMING, inbox, lastHandled, escaped,
                   pubCount, lastPub, currentId, kiCount, interruptPending,
                   crashCause, disconnectTried, pin, pressPhase, bounces,
                   bounceTime, presses, clock, wakeAt, fireAt, end_at, armedLog>>

\* publisher_loop: the store half of the += 1, then time.sleep(10) begins.
StoreAndSleep(s) ==
    /\ Alive /\ worker[s]["publisher"] = "store"
    /\ METRICS' = [METRICS EXCEPT !.total_messages_sent = tmp[s] + 1]
    /\ tmp' = [tmp EXCEPT ![s] = 0]
    /\ worker' = [worker EXCEPT ![s]["publisher"] = "sleep"]

PublisherStore(s) ==
    /\ StoreAndSleep(s)
    /\ UNCHANGED <<pcMain, inHandler, client, threads, joinIdx, conn, cbSet,
                   STOP_EVENT, RECONNECT_EVENT, edgeDetect, gpioClean, touchPc,
                   touchSess, touchTmp, INCOMING, inbox, lastHandled, escaped,
                   pubCount, lastPub, currentId, kiCount, interruptPending,
                   crashCause, disconnectTried, pin, pressPhase, bounces,
                   bounceTime, presses, clock, wakeAt, fireAt, end_at, armedLog>>

\* metrics_loop: the while test, at thread start or when time.sleep(30)
\* has ended, finds a flag set.
MetricsExit(s) ==
    /\ Alive /\ worker[s]["metrics"] \in {"check", "sleep"}
    /\ FlagSet
    /\ worker' = [worker EXCEPT ![s]["metrics"] = "done"]
    /\ UNCHANGED <<pcMain, inHandler, client, threads, joinIdx, conn, cbSet,
                   STOP_EVENT, RECONNECT_EVENT, edgeDetect, gpioClean, tmp,
                   touchPc, touchSess, touchTmp, METRICS, INCOMING, inbox,
                   lastHandled, escaped, pubCount, lastPub, currentId, kiCount,
                   interruptPending, crashCause, disconnectTried, pin, pressPhase,
                   bounces, bounceTime, presses, clock, wakeAt, fireAt, end_at,
                   armedLog>>

\* metrics_loop: the first while test passes; print_metrics(), and
\* time.sleep(30) begins (a later pass of the test changes nothing).
MetricsPrint(s) ==
    /\ Alive /\ worker[s]["metrics"] = "check"
    /\ ~FlagSet
    /\ worker' = [worker EXCEPT ![s]["metrics"] = "sleep"]
    /\ UNCHANGED <<pcMain, inHandler, client, threads, joinIdx, conn, cbSet,
                   STOP_EVENT, RECONNECT_EVENT, edgeDetect, gpioClean, tmp,
                   touchPc, touchSess, touchTmp, METRICS, INCOMING, inbox,
                   lastHandled, escaped, pubCount, lastPub, currentId, kiCount,
                   interruptPending, crashCause, disconnectTried, pin, pressPhase,
                   bounces, bounceTime, presses, clock, wakeAt, fireAt, end_at,
                   armedLog>>

\* extra_loop: the while test finds a flag set (otherwise it sleeps 1 s).
ExtraExit(s) ==
    /\ Alive /\ worker[s]["extra"] = "loop"
    /\ FlagSet
    /\ worker' = [worker EXCEPT ![s]["extra"] = "done"]
    /\ UNCHANGED <<pcMain, inHandler, client, threads, joinIdx, conn, cbSet,
                   STOP_EVENT, RECONNECT_EVENT, edgeDetect, gpioClean, tmp,
                   touchPc, touchSess, touchTmp, METRICS, INCOMING, inbox,
                   lastHandled, escaped, pubCount, lastPub, currentId, kiCount,
                   interruptPending, crashCause, disconnectTried, pin, pressPhase,
                   bounces, bounceTime, presses, clock, wakeAt, fireAt, end_at,
                   armedLog>>

\* ---------------------------------------------------------------------
\* touch_callback, run by the GPIO library's callback thread
\* ---------------------------------------------------------------------

\* The GPIO library calls the partial registered by add_event_detect:
\* touch_callback starts with the client and client_id bound at registration.
TouchCall ==
    /\ Alive /\ edgeDetect # 0 /\ touchPc = "idle"
    /\ touchPc' = "run"
    /\ touchSess' = edgeDetect

\* A rising edge on TOUCH_PIN: the registered partial is called.
TouchEdge ==
    /\ TouchCall
    /\ UNCHANGED <<pcMain, inHandler, client, threads, joinIdx, conn, cbSet,
                   STOP_EVENT, RECONNECT_EVENT, edgeDetect, gpioClean, worker, tmp,
                   touchTmp, METRICS, INCOMING, inbox, lastHandled, escaped,
                   pubCount, lastPub, currentId, kiCount, interruptPending,
                   crashCause, disconnectTried, pin, pressPhase, bounces,
                   bounceTime, presses, clock, wakeAt, fireAt, end_at, armedLog>>

\* GPIO.input(TOUCH_PIN) reads LOW: nothing is published.
TouchLow ==
    /\ Alive /\ touchPc = "run"
    /\ touchPc' = "idle"
    /\ touchSess' = 0
    /\ UNCHANGED <<pcMain, inHandler, client, threads, joinIdx, conn, cbSet,
                   STOP_EVENT, RECONNECT_EVENT, edgeDetect, gpioClean, worker, tmp,
                   touchTmp, METRICS, INCOMING, inbox, lastHandled, escaped,
                   pubCount, lastPub, currentId, kiCount, interruptPending,
                   crashCause, disconnectTried, pin, pressPhase, bounces,
                   bounceTime, presses, clock, wakeAt, fireAt, end_at, armedLog>>

\* GPIO.input reads HIGH: build_message(..., action="touch"), publish, and
\* the load half of METRICS["total_messages_sent"] += 1.
TouchPublish ==
    /\ Alive /\ touchPc = "run"
    /\ Publish(build_message(touchSess, "touch"))
    /\ touchTmp' = METRICS.total_messages_sent
    /\ touchPc' = "store"
    /\ touchSess' = 0
    /\ UNCHANGED <<pcMain, inHandler, client, threads, joinIdx, conn, cbSet,
                   STOP_EVENT, RECONNECT_EVENT, edgeDetect, gpioClean, worker, tmp,
                   METRICS, INCOMING, inbox, lastHandled, escaped, currentId,
                   kiCount, interruptPending, crashCause, disconnectTried, pin,
                   pressPhase, bounces, bounceTime, presses, clock, wakeAt, fireAt,
                   end_at, armedLog>>

\* touch_callback's `except Exception as e:` clause.
TouchExcept ==
    /\ RECONNECT_EVENT' = TRUE
    /\ touchPc' = "failed"
    /\ touchSess' = 0

\* GPIO.input reads HIGH and client.publish raises.
TouchPublishFail ==
    /\ Alive /\ touchPc = "run"
    /\ TouchExcept
    /\ UNCHANGED <<pcMain, inHandler, client, threads, joinIdx, conn, cbSet,
                   STOP_EVENT, edgeDetect, gpioClean, worker, tmp, touchTmp,
                   METRICS, INCOMING, inbox, lastHandled, escaped, pubCount,
                   lastPub, currentId, kiCount, interruptPending, crashCause,
                   disconnectTried, pin, pressPhase, bounces, bounceTime, presses,
                   clock, wakeAt, fireAt, end_at, armedLog>>

\* The store half of the += 1; the callback returns.
TouchStore ==
    /\ Alive /\ touchPc = "store"
    /\ METRICS' = [METRICS EXCEPT !.total_messages_sent = touchTmp + 1]
    /\ touchTmp' = 0
    /\ touchPc' = "idle"
    /\ UNCHANGED <<pcMain, inHandler, client, threads, joinIdx, conn, cbSet,
                   STOP_EVENT, RECONNECT_EVENT, edgeDetect, gpioClean, worker, tmp,
                   touchSess, INCOMING, inbox, lastHandled, escaped, pubCount,
                   lastPub, currentId, kiCount, interruptPending, crashCause,
                   disconnectTried, pin, pressPhase, bounces, bounceTime, presses,
                   clock, wakeAt, fireAt, end_at, armedLog>>

\* The callback returns after its except clause.
TouchReturn ==
    /\ Alive /\ touchPc = "failed"
    /\ touchPc' = "idle"
    /\ UNCHANGED <<pcMain, inHandler, client, threads, joinIdx, conn, cbSet,
                   STOP_EVENT, RECONNECT_EVENT, edgeDetect, gpioClean, worker, tmp,
                   touchSess, touchTmp, METRICS, INCOMING, inbox, lastHandled,
                   escaped, pubCount, lastPub, currentId, kiCount,
                   interruptPending, crashCause, disconnectTried, pin, pressPhase,
                   bounces, bounceTime, presses, clock, wakeAt, fireAt, end_at,
                   armedLog>>

\* ---------------------------------------------------------------------
\* connection callbacks, run by the transport's thread of client c
\* ---------------------------------------------------------------------

\* Locations of main between registering the callbacks of its client and
\* leaving the poll loop.
SessionPcs == {"sw_clear", "sw_setup_touch", "sw_start", "sw_return", "poll"}

\* The connection of c is interrupted: on_interrupted prints and sets
\* RECONNECT_EVENT.
on_interrupted(c) ==
    /\ Alive /\ cbSet[c] /\ conn[c] = "up"
    /\ conn' = [conn EXCEPT ![c] = "interrupted"]
    /\ RECONNECT_EVENT' = TRUE
    /\ interruptPending' =
          IF c = client /\ ~inHandler /\ pcMain \in SessionPcs
            THEN TRUE ELSE interruptPending
    /\ UNCHANGED <<pcMain, inHandler, client, threads, joinIdx, cbSet, STOP_EVENT,
                   edgeDetect, gpioClean, worker, tmp, touchPc, touchSess,
                   touchTmp, METRICS, INCOMING, inbox, lastHandled, escaped,
                   pubCount, lastPub, currentId, kiCount, crashCause,
                   disconnectTried, pin, pressPhase, bounces, bounceTime, presses,
                   clock, wakeAt, fireAt, end_at, armedLog>>

\* An on_resumed that takes the resumption as the end of the trouble and
\* clears RECONNECT_EVENT
on_resumed_ClearsFlag(c) ==
    /\ Alive /\ cbSet[c] /\ conn[c] = "interrupted"
    /\ conn' = [conn EXCEPT ![c] = "up"]
    /\ RECONNECT_EVENT' = FALSE
    /\ UNCHANGED <<pcMain, inHandler, client, threads, joinIdx, cbSet, STOP_EVENT,
                   edgeDetect, gpioClean, worker, tmp, touchPc, touchSess,
                   touchTmp, METRICS, INCOMING, inbox, lastHandled, escaped,
                   pubCount, lastPub, currentId, kiCount, interruptPending,
                   crashCause, disconnectTried, pin, pressPhase, bounces,
                   bounceTime, presses, clock, wakeAt, fireAt, end_at, armedLog>>

\* The transport re-establishes the connection of c: on_resumed only prints.
on_resumed(c) ==
    /\ Alive /\ cbSet[c] /\ conn[c] = "interrupted"
    /\ conn' = [conn EXCEPT ![c] = "up"]
    /\ UNCHANGED <<pcMain, inHandler, client, threads, joinIdx, cbSet, STOP_EVENT,
                   RECONNECT_EVENT, edgeDetect, gpioClean, worker, tmp, touchPc,
                   touchSess, touchTmp, METRICS, INCOMING, inbox, lastHandled,
                   escaped, pubCount, lastPub, currentId, kiCount,
                   interruptPending, crashCause, disconnectTried, pin, pressPhase,
                   bounces, bounceTime, presses, clock, wakeAt, fireAt, end_at,
                   armedLog>>

\* ---------------------------------------------------------------------
\* on_message, run by the transport's thread for each delivered payload
\* ---------------------------------------------------------------------

\* client_id values that occur in messages: this device's identities and
\* one peer's.
MsgIds == 1..(MaxSessions + 1)

MsgActions == {"touch", "test"}

\* JSON objects, as the dict json.loads returns for them: with both
\* fields, without `action`, without `client_id`.
Dicts ==
    {[client_id |-> c, action |-> a] : c \in MsgIds, a \in MsgActions}
    \cup {[client_id |-> c] : c \in MsgIds}
    \cup {[action |-> a] : a \in MsgActions}

\* Payload bytes: not UTF-8; UTF-8 that is not JSON; JSON that is not an
\* object (an array, null); a JSON object.
Payloads ==
    {[enc |-> "invalid"]}
    \cup {[enc |-> "utf8", json |-> "invalid"]}
    \cup {[enc |-> "utf8", json |-> k] : k \in {"array", "null"}}
    \cup {[enc |-> "utf8", json |-> "object", obj |-> d] : d \in Dicts}

\* The comparison made on a key the messages do not carry
IsSelfEcho_WrongKey(msg, current_client_id) ==
    /\ "clientId" \in DOMAIN msg
    /\ msg.clientId = current_client_id

\* A comparison that drops the messages of every other identity
IsSelfEcho_Inverted(msg, current_client_id) ==
    /\ "client_id" \in DOMAIN msg
    /\ msg.client_id # current_client_id

\* msg.get("client_id") == current_client_id
IsSelfEcho(msg, current_client_id) ==
    /\ "client_id" \in DOMAIN msg
    /\ msg.client_id = current_client_id

\* A try body that counts the message before it decodes it
TryBody_CountsFirst(current_client_id, payload) ==
    IF payload.enc # "utf8"
      THEN [exc |-> "UnicodeDecodeError", put |-> <<>>, received |-> 1]
    ELSE IF payload.json = "invalid"
      THEN [exc |-> "JSONDecodeError", put |-> <<>>, received |-> 1]
    ELSE IF payload.json # "object"
      THEN [exc |-> "AttributeError", put |-> <<>>, received |-> 1]
    ELSE IF IsSelfEcho(payload.obj, current_client_id)
      THEN [exc |-> "none", put |-> <<>>, received |-> 1]
    ELSE [exc |-> "none", put |-> <<payload.obj>>, received |-> 1]

\* The try body of on_message: the exception it stops with ("none" if it
\* completes), what it has put on INCOMING and added to
\* total_messages_received by then.
TryBody(current_client_id, payload) ==
    IF payload.enc # "utf8"
      THEN [exc |-> "UnicodeDecodeError", put |-> <<>>, received |-> 0]
    ELSE IF payload.json = "invalid"
      THEN [exc |-> "JSONDecodeError", put |-> <<>>, received |-> 0]
    ELSE IF payload.json # "object"
      THEN [exc |-> "AttributeError", put |-> <<>>, received |-> 0]
    ELSE IF IsSelfEcho(payload.obj, current_client_id)
      THEN [exc |-> "none", put |-> <<>>, received |-> 0]
    ELSE [exc |-> "none", put |-> <<payload.obj>>, received |-> 1]

\* An except clause that names ValueError (the decode and parse errors)
CatchesValueErrorOnly(exc) ==
    exc \in {"UnicodeDecodeError", "JSONDecodeError"}

\* `except Exception as e:` catches every exception the try body raises.
ExceptClauseCatches(exc) ==
    exc \in {"UnicodeDecodeError", "JSONDecodeError", "AttributeError"}

\* INCOMING.put({"_raw": repr(payload), "_error": str(e)})
ErrorRecord(payload, exc) ==
    [_raw |-> payload, _error |-> exc]

on_message(current_client_id, payload) ==
    LET r == TryBody(current_client_id, payload) IN
    /\ METRICS' = [METRICS EXCEPT !.total_messages_received = @ + r.received]
    /\ IF r.exc = "none"
         THEN /\ INCOMING' = INCOMING \o r.put
              /\ escaped' = "none"
       ELSE IF ExceptClauseCatches(r.exc)
         THEN /\ INCOMING' = Append(INCOMING \o r.put, ErrorRecord(payload, r.exc))
              /\ escaped' = "none"
       ELSE /\ INCOMING' = INCOMING \o r.put
            /\ escaped' = r.exc

\* The subscription made by listener_loop of session s is live.
Subscribed(s) ==
    /\ worker[s]["listener"] \in {"loop", "done"}
    /\ conn[s] = "up"

\* The transport delivers the next payload to the on_message partial that
\* listener_loop of session s subscribed (current_client_id = s).
Deliver(s) ==
    /\ Alive /\ Subscribed(s)
    /\ inbox # <<>>
    /\ on_message(s, Head(inbox))
    /\ lastHandled' = Head(inbox)
    /\ inbox' = Tail(inbox)
    /\ UNCHANGED <<pcMain, inHandler, client, threads, joinIdx, conn, cbSet,
                   STOP_EVENT, RECONNECT_EVENT, edgeDetect, gpioClean, worker, tmp,
                   touchPc, touchSess, touchTmp, pubCount, lastPub, currentId,
                   kiCount, interruptPending, crashCause, disconnectTried, pin,
                   pressPhase, bounces, bounceTime, presses, clock, wakeAt, fireAt,
                   end_at, armedLog>>

\* ---------------------------------------------------------------------
\* specifications
\* ---------------------------------------------------------------------

MainStep ==
    \/ build_mqtt_client
    \/ ConnectOk
    \/ ConnectFail
    \/ RegisterCallbacks
    \/ ClearEvents
    \/ SetupTouchOk
    \/ SetupTouchFail
    \/ StartThreads
    \/ BindThreads
    \/ PollReconnect
    \/ StopSet
    \/ Join
    \/ Detach
    \/ DisconnectOk
    \/ DisconnectFail

\* A KeyboardInterrupt, and the steps of main that only its handler reaches.
UserInterrupt ==
    \/ InterruptInTry
    \/ InterruptInHandler
    \/ InterruptInFinally
    \/ DisconnectNone
    \/ GpioCleanup

WorkerStep(s) ==
    \/ ListenerSubscribed(s)
    \/ ListenerSubscribeFail(s)
    \/ ListenerExit(s)
    \/ PublisherExit(s)
    \/ PublisherPublish(s)
    \/ PublisherPublishFail(s)
    \/ PublisherStore(s)
    \/ MetricsExit(s)
    \/ MetricsPrint(s)
    \/ ExtraExit(s)

TouchStep ==
    \/ TouchEdge
    \/ TouchLow
    \/ TouchPublish
    \/ TouchPublishFail
    \/ TouchStore
    \/ TouchReturn

ConnectionEvent ==
    \/ \E c \in Sessions : on_interrupted(c)
    \/ \E c \in Sessions : on_resumed(c)

\* The product of every thread with every outside event is too large to
\* enumerate, so each specification composes main and the workers of all
\* sessions with one source of outside events.

\* main, the workers and the transport's connection callbacks.
Next ==
    \/ MainStep
    \/ \E s \in Sessions : WorkerStep(s)
    \/ ConnectionEvent

Spec == Init /\ [][Next]_vars

\* main, the workers and the touch callback.
NextTouch ==
    \/ MainStep
    \/ \E s \in Sessions : WorkerStep(s)
    \/ TouchStep

SpecTouch == Init /\ [][NextTouch]_vars

\* main, the workers and KeyboardInterrupts.
NextInterrupt ==
    \/ MainStep
    \/ \E s \in Sessions : WorkerStep(s)
    \/ UserInterrupt

SpecInterrupt == Init /\ [][NextInterrupt]_vars

\* The state in which session r is connected and running after the
\* sessions before it were torn down, with payloads in flight to it.
InitRouter ==
    \E r \in Sessions :
    /\ pcMain = "poll"
    /\ inHandler = FALSE
    /\ client = r
    /\ threads = r
    /\ joinIdx = 0
    /\ conn = [s \in Sessions |->
                 IF s < r THEN "closed" ELSE IF s = r THEN "up" ELSE "none"]
    /\ cbSet = [s \in Sessions |-> s <= r]
    /\ STOP_EVENT = FALSE
    /\ RECONNECT_EVENT = FALSE
    /\ edgeDetect = r
    /\ gpioClean = FALSE
    /\ worker = [s \in Sessions |->
                   IF s < r THEN [x \in RoleSet |-> "done"]
                   ELSE IF s = r
                     THEN [x \in RoleSet |->
                             CASE x = "listener" -> "loop"
                               [] x = "publisher" -> "check"
                               [] x = "metrics" -> "check"
                               [] OTHER -> "loop"]
                   ELSE [x \in RoleSet |-> "unstarted"]]
    /\ tmp = [s \in Sessions |-> 0]
    /\ touchPc = "idle"
    /\ touchSess = 0
    /\ touchTmp = 0
    /\ METRICS = [build_metrics EXCEPT !.client_reconnections = r - 1]
    /\ INCOMING = <<>>
    /\ inbox \in UNION {[1..n -> Payloads] : n \in 0..MaxInbox}
    /\ lastHandled = NoPayload
    /\ escaped = "none"
    /\ pubCount = 0
    /\ lastPub = NoMessage
    /\ currentId = r
    /\ kiCount = 0
    /\ interruptPending = FALSE
    /\ crashCause = "none"
    /\ disconnectTried = {s \in Sessions : s < r}
    /\ pin = 0
    /\ pressPhase = "released"
    /\ bounces = 0
    /\ bounceTime = FALSE
    /\ presses = 0
    /\ clock = 0
    /\ wakeAt = [s \in Sessions |-> 0]
    /\ fireAt = <<>>
    /\ end_at = 0
    /\ armedLog = <<>>

NextRouter == \E s \in Sessions : Deliver(s)

\* The message handler alone: deliveries to a running session.
SpecRouter == InitRouter /\ [][NextRouter]_vars


\* ---------------------------------------------------------------------
\* TOUCH_PIN: the sensor's signal and the edge detection registered by
\* add_event_detect(TOUCH_PIN, GPIO.RISING, callback=..., bouncetime=200),
\* for a session whose detection stays registered.  A press makes the level
\* go HIGH, bounce, and settle HIGH until the release; all of the bounce
\* falls inside the 200 ms bouncetime and the next press begins after it.
\* ---------------------------------------------------------------------

\* A press begins: the first rising edge is reported, the callback is
\* called and bouncetime starts.
PressBegin ==
    /\ pressPhase = "released" /\ ~bounceTime
    /\ presses < MaxPresses
    /\ TouchCall
    /\ presses' = presses + 1
    /\ pin' = 1
    /\ pressPhase' = "bouncing"
    /\ bounces' = 0
    /\ bounceTime' = TRUE
    /\ UNCHANGED <<pcMain, inHandler, client, threads, joinIdx, conn, cbSet,
                   STOP_EVENT, RECONNECT_EVENT, edgeDetect, gpioClean, worker, tmp,
                   touchTmp, METRICS, INCOMING, inbox, lastHandled, escaped,
                   pubCount, lastPub, currentId, kiCount, interruptPending,
                   crashCause, disconnectTried, clock, wakeAt, fireAt, end_at,
                   armedLog>>

\* The contact bounces: the level changes; a rising edge inside bouncetime
\* is not reported.
Bounce ==
    /\ Alive /\ pressPhase = "bouncing"
    /\ bounces < MaxBounces
    /\ pin' = 1 - pin
    /\ bounces' = bounces + 1
    /\ UNCHANGED <<pcMain, inHandler, client, threads, joinIdx, conn, cbSet,
                   STOP_EVENT, RECONNECT_EVENT, edgeDetect, gpioClean, worker, tmp,
                   touchPc, touchSess, touchTmp, METRICS, INCOMING, inbox,
                   lastHandled, escaped, pubCount, lastPub, currentId, kiCount,
                   interruptPending, crashCause, disconnectTried, pressPhase,
                   bounceTime, presses, clock, wakeAt, fireAt, end_at, armedLog>>

\* The bounce is over: the level is HIGH for as long as the finger stays.
Settle ==
    /\ Alive /\ pressPhase = "bouncing"
    /\ pin' = 1
    /\ pressPhase' = "held"
    /\ UNCHANGED <<pcMain, inHandler, client, threads, joinIdx, conn, cbSet,
                   STOP_EVENT, RECONNECT_EVENT, edgeDetect, gpioClean, worker, tmp,
                   touchPc, touchSess, touchTmp, METRICS, INCOMING, inbox,
                   lastHandled, escaped, pubCount, lastPub, currentId, kiCount,
                   interruptPending, crashCause, disconnectTried, bounces,
                   bounceTime, presses, clock, wakeAt, fireAt, end_at, armedLog>>

\* The finger is lifted: the level falls back to LOW (PUD_DOWN).
Release ==
    /\ Alive /\ pressPhase = "held"
    /\ pin' = 0
    /\ pressPhase' = "released"
    /\ UNCHANGED <<pcMain, inHandler, client, threads, joinIdx, conn, cbSet,
                   STOP_EVENT, RECONNECT_EVENT, edgeDetect, gpioClean, worker, tmp,
                   touchPc, touchSess, touchTmp, METRICS, INCOMING, inbox,
                   lastHandled, escaped, pubCount, lastPub, currentId, kiCount,
                   interruptPending, crashCause, disconnectTried, bounces,
                   bounceTime, presses, clock, wakeAt, fireAt, end_at, armedLog>>

\* 200 ms have passed since the reported edge; the callback it caused
\* has run by then.
BounceTimeEnds ==
    /\ Alive /\ bounceTime /\ pressPhase # "bouncing"
    /\ touchPc = "idle"
    /\ bounceTime' = FALSE
    /\ UNCHANGED <<pcMain, inHandler, client, threads, joinIdx, conn, cbSet,
                   STOP_EVENT, RECONNECT_EVENT, edgeDetect, gpioClean, worker, tmp,
                   touchPc, touchSess, touchTmp, METRICS, INCOMING, inbox,
                   lastHandled, escaped, pubCount, lastPub, currentId, kiCount,
                   interruptPending, crashCause, disconnectTried, pin, pressPhase,
                   bounces, presses, clock, wakeAt, fireAt, end_at, armedLog>>

\* touch_callback's GPIO.input(TOUCH_PIN) with the level the pin has when
\* the callback thread gets to run it.
ReadLow == pin = 0 /\ TouchLow

ReadHigh == pin = 1 /\ TouchPublish

ReadHighFail == pin = 1 /\ TouchPublishFail

\* A running session with nothing in flight from the broker.
InitPress == InitRouter /\ inbox = <<>>

NextPress ==
    \/ PressBegin
    \/ Bounce
    \/ Settle
    \/ Release
    \/ BounceTimeEnds
    \/ ReadLow
    \/ ReadHigh
    \/ ReadHighFail
    \/ TouchStore
    \/ TouchReturn

\* The sensor and the touch callback alone.
SpecPress == InitPress /\ [][NextPress]_vars

\* ---------------------------------------------------------------------
\* publisher_loop against the wall clock
\* ---------------------------------------------------------------------

\* Time passes: by a second (a publish call that takes a while, a thread
\* that is scheduled late) or by a whole sleep.
Tick ==
    /\ Alive
    /\ \E d \in {1, SleepSeconds} :
          /\ clock + d <= MaxClock
          /\ clock' = clock + d
    /\ UNCHANGED <<pcMain, inHandler, client, threads, joinIdx, conn, cbSet,
                   STOP_EVENT, RECONNECT_EVENT, edgeDetect, gpioClean, worker, tmp,
                   touchPc, touchSess, touchTmp, METRICS, INCOMING, inbox,
                   lastHandled, escaped, pubCount, lastPub, currentId, kiCount,
                   interruptPending, crashCause, disconnectTried, pin, pressPhase,
                   bounces, bounceTime, presses, wakeAt, fireAt, end_at, armedLog>>

\* publisher_loop's iteration once time.sleep(10) has ended (or at thread
\* start): build_message stamps the message with the current time.
TimedPublish(s) ==
    /\ clock >= wakeAt[s]
    /\ PublishIteration(s)
    /\ fireAt' = Append(fireAt, clock)
    /\ UNCHANGED <<pcMain, inHandler, client, threads, joinIdx, conn, cbSet,
                   STOP_EVENT, RECONNECT_EVENT, edgeDetect, gpioClean, touchPc,
                   touchSess, touchTmp, METRICS, INCOMING, inbox, lastHandled,
                   escaped, currentId, kiCount, interruptPending, crashCause,
                   disconnectTried, pin, pressPhase, bounces, bounceTime, presses,
                   clock, wakeAt, end_at, armedLog>>

\* The iteration ends: time.sleep(10) starts now.
TimedSleep(s) ==
    /\ StoreAndSleep(s)
    /\ wakeAt' = [wakeAt EXCEPT ![s] = clock + SleepSeconds]
    /\ UNCHANGED <<pcMain, inHandler, client, threads, joinIdx, conn, cbSet,
                   STOP_EVENT, RECONNECT_EVENT, edgeDetect, gpioClean, touchPc,
                   touchSess, touchTmp, INCOMING, inbox, lastHandled, escaped,
                   pubCount, lastPub, currentId, kiCount, interruptPending,
                   crashCause, disconnectTried, pin, pressPhase, bounces,
                   bounceTime, presses, clock, fireAt, end_at, armedLog>>

NextSchedule ==
    \/ Tick
    \/ \E s \in Sessions : TimedPublish(s)
    \/ \E s \in Sessions : TimedSleep(s)

\* The publisher of a running session and the clock.
SpecSchedule == InitPress /\ [][NextSchedule]_vars

\* ---------------------------------------------------------------------
\* The consumer of INCOMING: the output state machine and its decaying
\* window.  main.py only fills the queue; the consumer is modelled from
\* the specification of the output state machine.
\* ---------------------------------------------------------------------

\* The length of the decay window in seconds.
WindowDuration == 10

\* An on_remote_event that extends the window from its previous end
on_remote_event_Accumulates(action) ==
    IF action = "touch"
      THEN /\ end_at' = end_at + WindowDuration
           /\ armedLog' = Append(armedLog, clock)
      ELSE UNCHANGED <<end_at, armedLog>>

\* on_remote_event(action): "touch" sets end_at = now + window_duration,
\* overwriting any prior value.
on_remote_event(action) ==
    IF action = "touch"
      THEN /\ end_at' = clock + WindowDuration
           /\ armedLog' = Append(armedLog, clock)
      ELSE UNCHANGED <<end_at, armedLog>>

\* render(now): the output is active while now < end_at.
OutputActive == clock < end_at

\* The next entry of INCOMING is taken and dispatched: a message with an
\* action goes to on_remote_event, an error record is dropped.
OutputDispatch ==
    /\ Alive /\ INCOMING # <<>>
    /\ INCOMING' = Tail(INCOMING)
    /\ IF "action" \in DOMAIN Head(INCOMING)
         THEN on_remote_event(Head(INCOMING).action)
         ELSE UNCHANGED <<end_at, armedLog>>
    /\ UNCHANGED <<pcMain, inHandler, client, threads, joinIdx, conn, cbSet,
                   STOP_EVENT, RECONNECT_EVENT, edgeDetect, gpioClean, worker, tmp,
                   touchPc, touchSess, touchTmp, METRICS, inbox, lastHandled,
                   escaped, pubCount, lastPub, currentId, kiCount,
                   interruptPending, crashCause, disconnectTried, pin, pressPhase,
                   bounces, bounceTime, presses, clock, wakeAt, fireAt>>

NextWindow ==
    \/ Tick
    \/ \E s \in Sessions : Deliver(s)
    \/ OutputDispatch

\* A running session with JSON objects and unparsable text in flight.
InitWindow ==
    /\ InitRouter
    /\ \A i \in 1..Len(inbox) :
          /\ inbox[i].enc = "utf8"
          /\ inbox[i].json \in {"object", "invalid"}

\* The message handler of a running session, the consumer of its queue
\* and the clock.
SpecWindow == InitWindow /\ [][NextWindow]_vars

\* The steps of the workers of session s when the transport answers and no
\* publish is made: the subscription is acknowledged and each loop ends at
\* its next test of the flags.
QuietWorkerStep(s) ==
    \/ ListenerSubscribed(s)
    \/ ListenerExit(s)
    \/ PublisherExit(s)
    \/ MetricsExit(s)
    \/ ExtraExit(s)

NextLifecycle ==
    \/ MainStep
    \/ \E s \in Sessions : QuietWorkerStep(s)
    \/ ConnectionEvent

\* main and the connection callbacks, with workers that only start and
\* stop.
SpecLifecycle == Init /\ [][NextLifecycle]_vars

\* A loop of session s that finds a flag set at its next test ends.
WorkerExitStep(s) ==
    \/ ListenerExit(s)
    \/ PublisherExit(s)
    \/ MetricsExit(s)
    \/ ExtraExit(s)

\* The same with the scheduling the program has: the main thread keeps
\* running (each of its waits ends, by an answer or by its timeout, or by a
\* thread that it joins ending), and every worker loop keeps testing the
\* flags.  Nothing makes the broker acknowledge a subscription or the
\* connection fail.
SpecLifecycleFair ==
    /\ Init /\ [][NextLifecycle]_vars
    /\ WF_vars(MainStep)
    /\ \A s \in Sessions : WF_vars(WorkerExitStep(s))

NextTouchLifecycle ==
    \/ NextLifecycle
    \/ TouchStep

\* main, the connection callbacks and the touch callback, with workers
\* that only start and stop.
SpecTouchLifecycle == Init /\ [][NextTouchLifecycle]_vars
\* ---------------------------------------------------------------------
\* claims
\* ---------------------------------------------------------------------

\* C1: every run of on_interrupted for the session's client is followed by
\* main observing RECONNECT_EVENT; no interruption signal is lost, so
\* while one is pending the flag stays set until main has seen it.
C1_NoInterruptionLost ==
    interruptPending => RECONNECT_EVENT

\* C2: a failed connection attempt is fatal only to that attempt: it never
\* ends the process.
C2_ConnectFailureNotFatal ==
    ~(pcMain = "crashed" /\ crashCause = "connect")

\* C3: once the next session's start_workers has cleared STOP_EVENT and
\* RECONNECT_EVENT, no worker thread of an earlier session is still running.
C3_NoWorkerOutlivesSession ==
    pcMain \in {"sw_setup_touch", "sw_start", "sw_return", "poll"} =>
        \A s \in Sessions : \A r \in RoleSet :
            s < client => Terminated(s, r)

\* C4: every message published by publisher_loop or touch_callback carries
\* the client_id of the most recent successful connect.
C4_PublishCarriesCurrentId ==
    [][pubCount' # pubCount => lastPub'.client_id = currentId']_vars

\* C5: a publish or subscribe error in publisher_loop, listener_loop or
\* touch_callback is caught where it is raised: the step that ends the
\* component with the error sets RECONNECT_EVENT and leaves main where it
\* was, with no exception escaping.
C5_ErrorsSetReconnect ==
    [][/\ \A s \in Sessions : \A r \in RoleSet :
            (worker[s][r] # "failed" /\ worker'[s][r] = "failed") =>
                /\ RECONNECT_EVENT'
                /\ pcMain' = pcMain
                /\ crashCause' = "none"
       /\ (touchPc # "failed" /\ touchPc' = "failed") =>
                /\ RECONNECT_EVENT'
                /\ pcMain' = pcMain
                /\ crashCause' = "none"]_vars

\* A session in which subscribe, publish and the touch publish have all
\* raised, with the process still running.
C5_Witness ==
    /\ Alive
    /\ RECONNECT_EVENT
    /\ touchPc = "failed"
    /\ \E s \in Sessions :
          /\ worker[s]["listener"] = "failed"
          /\ worker[s]["publisher"] = "failed"

\* The step is a call of on_message with the payload at the head of inbox.
Delivered ==
    /\ inbox # <<>>
    /\ inbox' = Tail(inbox)
    /\ lastHandled' = Head(inbox)

\* The payload is a JSON object whose client_id is id.
SentBy(payload, id) ==
    /\ payload.enc = "utf8"
    /\ payload.json = "object"
    /\ "client_id" \in DOMAIN payload.obj
    /\ payload.obj.client_id = id

\* The payload is not valid UTF-8, or its text is not valid JSON.
Malformed(payload) ==
    \/ payload.enc = "invalid"
    \/ payload.enc = "utf8" /\ payload.json = "invalid"

\* C6: a received message whose client_id is the session's own is never
\* put on INCOMING or counted in total_messages_received, whatever its
\* action.
C6_SelfEchoDropped ==
    [][\A s \in Sessions :
          (Delivered /\ Subscribed(s) /\ SentBy(Head(inbox), s)) =>
              /\ INCOMING' = INCOMING
              /\ METRICS' = METRICS]_vars

\* on_message has handled a touch message of the session's own identity
\* and nothing was queued or counted.
C6_Witness ==
    /\ \E s \in Sessions : Subscribed(s) /\ SentBy(lastHandled, s)
    /\ "action" \in DOMAIN lastHandled.obj
    /\ lastHandled.obj.action = "touch"
    /\ INCOMING = <<>>
    /\ METRICS.total_messages_received = 0

\* C7 as stated: a malformed payload leaves INCOMING and METRICS as they
\* were.
C7_MalformedNoStateChange ==
    [][(Delivered /\ Malformed(Head(inbox))) =>
          /\ INCOMING' = INCOMING
          /\ METRICS' = METRICS]_vars

\* C7 as amended: a malformed payload leaves every METRICS counter as it
\* was and is not queued as a message; INCOMING gains exactly one record,
\* which carries the raw payload under _raw and the error under _error.
C7_MalformedRecorded ==
    [][(Delivered /\ Malformed(Head(inbox))) =>
          /\ METRICS' = METRICS
          /\ Len(INCOMING') = Len(INCOMING) + 1
          /\ SubSeq(INCOMING', 1, Len(INCOMING)) = INCOMING
          /\ DOMAIN INCOMING'[Len(INCOMING')] = {"_raw", "_error"}
          /\ INCOMING'[Len(INCOMING')]._raw = Head(inbox)]_vars

\* on_message has handled a payload that is not JSON and its error record
\* is the last entry of INCOMING.
C7_Witness ==
    /\ lastHandled.enc = "utf8"
    /\ lastHandled.json = "invalid"
    /\ INCOMING # <<>>
    /\ "_error" \in DOMAIN INCOMING[Len(INCOMING)]
    /\ INCOMING[Len(INCOMING)]._raw = lastHandled
    /\ METRICS.total_messages_received = 0

\* C8: on_message never raises to the transport thread, for any payload.
C8_NeverRaises ==
    escaped = "none"

\* on_message has handled JSON that is not an object (msg.get raised) and
\* returned normally.
C8_Witness ==
    /\ lastHandled.enc = "utf8"
    /\ lastHandled.json \in {"array", "null"}
    /\ escaped = "none"
    /\ INCOMING # <<>>
    /\ "_error" \in DOMAIN INCOMING[Len(INCOMING)]
    /\ INCOMING[Len(INCOMING)]._error = "AttributeError"

\* C9: a JSON object without an `action` field is malformed: it is never
\* on INCOMING as an accepted message (every entry is an error record or
\* has an action).
C9_MissingActionRejected ==
    \A i \in 1..Len(INCOMING) :
        \/ "_error" \in DOMAIN INCOMING[i]
        \/ "action" \in DOMAIN INCOMING[i]

\* stop_workers has done its part for the interrupt handler.
HandlerStopped ==
    /\ STOP_EVENT
    /\ edgeDetect = 0
    /\ client # 0 => client \in disconnectTried

\* C10: after a user interrupt the handler ends the loop with best-effort
\* cleanup: when it reaches `finally`, STOP_EVENT is set, the edge listener
\* is detached and disconnect was attempted on the client if there is one;
\* main returns only after GPIO.cleanup, with no exception escaping; and
\* until then the handler can always take its next step, or it is in a
\* join on a thread that is not blocked and has a step to take.
C10_InterruptCleansUp ==
    kiCount = 1 =>
        /\ pcMain \in {"gpio_cleanup", "exited"} => HandlerStopped
        /\ pcMain = "exited" => gpioClean
        /\ crashCause = "none"
        /\ (inHandler /\ pcMain # "exited") =>
              \/ ENABLED MainStep
              \/ ENABLED GpioCleanup
              \/ ENABLED DisconnectNone
              \/ /\ pcMain = "join"
                 /\ ~LongBlocked(threads, Roles[joinIdx])
                 /\ ENABLED WorkerStep(threads)

\* The interrupt came during the second session, disconnect failed, and
\* main has returned.
C10_Witness ==
    /\ pcMain = "exited"
    /\ kiCount = 1
    /\ client = 2
    /\ threads = client
    /\ conn[client] = "up"
    /\ gpioClean


\* ---------------------------------------------------------------------
\* C11: every physical press whose bounce falls inside the 200 ms
\* bouncetime, with presses at least 200 ms apart, produces exactly one
\* touch publish.  Stated when everything is at rest and no publish has
\* failed: the publishes made (all by touch_callback here) are as many as
\* the presses.
\* ---------------------------------------------------------------------
C11_OnePublishPerPress ==
    (/\ pressPhase = "released"
     /\ ~bounceTime
     /\ touchPc = "idle"
     /\ ~RECONNECT_EVENT)
    => pubCount = presses

\* ---------------------------------------------------------------------
\* C12: the test messages of a session are published on a fixed-phase
\* schedule: their fire times form an arithmetic sequence with common
\* difference 10 s, whatever time a publish takes and however late an
\* iteration runs.
\* ---------------------------------------------------------------------
C12_FixedPhaseSchedule ==
    \A i \in 1..(Len(fireAt) - 1) : fireAt[i + 1] - fireAt[i] = SleepSeconds

\* ---------------------------------------------------------------------
\* C13: a touch message received from a different identity arms the decay
\* window to end_at = now + window_duration, overwriting what it was, so a
\* duplicate re-arms it from the later time; the output is active while
\* now < end_at.
\* ---------------------------------------------------------------------

\* The payload is a touch message of an identity other than id.
PeerTouch(payload, id) ==
    /\ payload.enc = "utf8"
    /\ payload.json = "object"
    /\ DOMAIN payload.obj = {"client_id", "action"}
    /\ payload.obj.client_id # id
    /\ payload.obj.action = "touch"

\* The head of INCOMING is taken and it is a touch message.
TouchDispatched ==
    /\ INCOMING # <<>>
    /\ INCOMING' = Tail(INCOMING)
    /\ "action" \in DOMAIN Head(INCOMING)
    /\ Head(INCOMING).action = "touch"

DisconnectFailed ==
    /\ pcMain = "disconnect" /\ pcMain' # "disconnect"
    /\ client # 0
    /\ client \in disconnectTried'
    /\ conn'[client] # "closed"

C14_DisconnectBestEffort ==
    /\ [][(DisconnectFailed /\ ~inHandler) =>
             /\ pcMain' = "build"
             /\ crashCause' = "none"
             /\ client' = client]_vars
    /\ [](\A s \in Sessions :
             (/\ pcMain = "build" /\ client = s /\ s < MaxSessions
              /\ s \in disconnectTried /\ conn[s] # "closed")
             => ENABLED build_mqtt_client)

\* The disconnect of session 1 failed, and main has connected session 2
\* and runs it.
C14_Witness ==
    /\ 1 \in disconnectTried
    /\ conn[1] \in {"up", "interrupted"}
    /\ client = 2
    /\ conn[2] = "up"
    /\ pcMain = "poll"
    /\ crashCause = "none"

\* ---------------------------------------------------------------------
\* C15: a session goes through Connecting, Connected, Interrupted,
\* Disconnecting and then a new Connecting.  The workers and the touch
\* listener of a session exist only once its connect has succeeded;
\* stop_workers starts only from the poll loop with RECONNECT_EVENT set and
\* joins every thread of the list; and main is at a further connect attempt
\* only with the previous session's stop_workers complete: STOP_EVENT set,
\* the edge listener detached, the disconnect attempted.
\* ---------------------------------------------------------------------

Connecting == {"build", "connect"}

Connected == {"register", "sw_clear", "sw_setup_touch", "sw_start", "sw_return", "poll"}

\* The session whose teardown precedes main's current connect attempt
\* (0 if it is the first attempt).
PreviousSession ==
    IF pcMain = "build" THEN client
    ELSE IF pcMain = "connect" THEN client - 1
    ELSE 0

C15_SessionOrder ==
    [][/\ \A s \in Sessions :
             ((\E r \in RoleSet : worker'[s][r] # "unstarted") \/ edgeDetect' = s)
             => conn'[s] \in {"up", "interrupted", "closed"}
       /\ (pcMain \in Connecting /\ pcMain' \notin Connecting)
             => (pcMain' = "register" /\ conn'[client] = "up") \/ pcMain' = "crashed"
       /\ (pcMain \in Connected /\ pcMain' \notin Connected)
             => (pcMain = "poll" /\ RECONNECT_EVENT /\ pcMain' = "stop_set")
                \/ pcMain' = "crashed"
       /\ (pcMain = "join" /\ pcMain' # "join")
             => pcMain' = "detach" /\ joinIdx = Len(Roles)
       /\ (pcMain \in StopPcs /\ pcMain' \notin StopPcs)
             => pcMain = "disconnect" /\ pcMain' = "build"
       /\ PreviousSession' # 0
             => /\ STOP_EVENT'
                /\ edgeDetect' = 0
                /\ PreviousSession' \in disconnectTried']_vars

\* main is at the connect of session 2 after session 1 ran its workers and
\* was stopped.
C15_Witness ==
    /\ pcMain = "connect"
    /\ client = 2
    /\ \A r \in RoleSet : worker[1][r] # "unstarted"
    /\ STOP_EVENT
    /\ edgeDetect = 0
    /\ 1 \in disconnectTried
    /\ conn[2] = "built"

\* ---------------------------------------------------------------------
\* C16: the interruption callback sets RECONNECT_EVENT and does nothing
\* else: it does not stop workers, disconnect or reconnect.  The resumption
\* callback changes no state (STOP_EVENT, RECONNECT_EVENT, METRICS and
\* INCOMING stay as they are), so a resume after an interruption leaves
\* the reconnect pending.
\* ---------------------------------------------------------------------

\* on_interrupted has run for client c / on_resumed has run for client c.
InterruptedStep(c) == conn[c] = "up" /\ conn'[c] = "interrupted"

ResumedStep(c) == conn[c] = "interrupted" /\ conn'[c] = "up"

C16_CallbacksOnlySignal ==
    [][\A c \in Sessions :
          /\ InterruptedStep(c) =>
                /\ RECONNECT_EVENT'
                /\ UNCHANGED <<STOP_EVENT, pcMain, client, threads, worker,
                               edgeDetect, disconnectTried, METRICS, INCOMING>>
          /\ ResumedStep(c) =>
                UNCHANGED <<STOP_EVENT, RECONNECT_EVENT, interruptPending, pcMain,
                            client, threads, worker, edgeDetect, disconnectTried,
                            METRICS, INCOMING>>]_vars

\* The connection of the running session was interrupted and has resumed,
\* and main, still polling, has the reconnect pending.
C16_Witness ==
    /\ pcMain = "poll"
    /\ conn[client] = "up"
    /\ interruptPending
    /\ RECONNECT_EVENT
    /\ ~STOP_EVENT

\* ---------------------------------------------------------------------
\* C17: every wait on a transport acknowledgement is bounded by a timeout:
\* main leaves its wait for the connect and for the disconnect, and
\* listener_loop leaves its wait for the subscribe acknowledgement even if
\* the acknowledgement never arrives (or the process has ended by then).
\* ---------------------------------------------------------------------
C17_AckWaitsAreBounded ==
    /\ (pcMain = "connect") ~> (pcMain # "connect")
    /\ (pcMain = "disconnect") ~> (pcMain # "disconnect")
    /\ \A s \in Sessions :
          (worker[s]["listener"] = "subscribe")
             ~> (worker[s]["listener"] # "subscribe" \/ ~Alive)

\* ---------------------------------------------------------------------
\* C18: once the transport's interruption signal has set RECONNECT_EVENT
\* for the running session, touch_callback publishes no touch message of
\* that session until stop_workers has removed the edge detection.
\* ---------------------------------------------------------------------

\* RECONNECT_EVENT is set after an interruption of the running session and
\* its edge detection is still registered.
ReconnectSignalled ==
    /\ RECONNECT_EVENT
    /\ edgeDetect = client
    /\ interruptPending \/ pcMain \in {"stop_set", "join", "detach"}

C18_NoTouchAfterSignal ==
    [][(/\ pubCount' = pubCount + 1
        /\ lastPub'.action = "touch"
        /\ lastPub'.client_id = client)
       => ~ReconnectSignalled]_vars

\* ---------------------------------------------------------------------
\* C19: METRICS["total_messages_sent"] counts every publish call that has
\* returned in publisher_loop and touch_callback, under every interleaving
\* of the two threads: the counter, plus one for each thread that is
\* between its publish and the end of its `+= 1`, equals the number of
\* publishes.
\* ---------------------------------------------------------------------

\* Threads that have published and not yet finished their increment.
IncrementsInProgress ==
    Cardinality({s \in Sessions : worker[s]["publisher"] = "store"})
    + (IF touchPc = "store" THEN 1 ELSE 0)

C19_NoLostIncrement ==
    METRICS.total_messages_sent + IncrementsInProgress = pubCount

\* ---------------------------------------------------------------------
\* C20: a session is torn down only for an event of its own: while main
\* runs session n (from the flags' clear in start_workers to the end of the
\* poll loop), RECONNECT_EVENT is never set by a step of a worker thread or
\* of a connection callback of an earlier session.
\* ---------------------------------------------------------------------
C20_NoTeardownByOldSession ==
    [][(/\ pcMain \in {"sw_setup_touch", "sw_start", "sw_return", "poll"}
        /\ ~RECONNECT_EVENT
        /\ RECONNECT_EVENT')
       => \A s \in Sessions :
             s < client => worker'[s] = worker[s] /\ conn'[s] = conn[s]]_vars
====
